---- MODULE Spec2Model ----
(***************************************************************************)
(* Wave-field engine of the dual parabolic wave simulation.                *)
(*                                                                         *)
(* Numbers are fixed point.  Lengths are millimetres, times are in units   *)
(* of 1e-7 s, speeds in units of 1e3 mm/s, frequencies in units of 1e5 Hz, *)
(* the damping factor in units of 1e-3, field and source values in units   *)
(* of 1e-3.  A product speed*time is therefore a length in units of        *)
(* 1e-4 mm.  A float/double rounding is a truncation toward zero.          *)
(***************************************************************************)
EXTENDS Integers, Sequences, FiniteSets, TLC

VARIABLES args, wf, wf2

vars == <<args, wf, wf2>>

(***************************************************************************)
(* Bounds of the model.                                                    *)
(***************************************************************************)
MaxTime == 4

MaxTimeStep == 10

CtorMaxTime == 1

PairMaxTime == 3

(***************************************************************************)
(* Arithmetic helpers.                                                     *)
(***************************************************************************)
Abs(x) == IF x < 0 THEN -x ELSE x

Min(a, b) == IF a < b THEN a ELSE b

Max(a, b) == IF a > b THEN a ELSE b

\* rounding of a quotient toward zero (b > 0)
TruncDiv(a, b) == IF a >= 0 THEN a \div b ELSE -((-a) \div b)

\* std::round of a quotient: nearest, halves away from zero (b > 0)
RoundDiv(a, b) == IF a >= 0 THEN (2 * a + b) \div (2 * b) ELSE -((2 * (-a) + b) \div (2 * b))

Clamp(v, lo, hi) == IF v < lo THEN lo ELSE IF v > hi THEN hi ELSE v

\* fixed-point scale of the coefficients q0..q3 (1e-4)
QScale == 10000

\* units of the damping factor per unit (1e-3)
DampScale == 1000

(***************************************************************************)
(* Types.h                                                                 *)
(***************************************************************************)
AIR == "AIR"

PARABOLIC == "PARABOLIC"

RIGID == "RIGID"

Point2D(x, y) == [x |-> x, y |-> y]

(***************************************************************************)
(* Parabola                                                                *)
(***************************************************************************)
\* a = +-1/(4f), kept as the signed denominator 4f of the unit fraction
calculateCoefficient(focus, concaveUp) == IF concaveUp THEN 4 * focus ELSE -(4 * focus)

Parabola(diameter, focus, vertex, concaveUp) ==
    [m_diameter |-> diameter, m_focus |-> focus, m_vertex |-> vertex,
     m_concaveUp |-> concaveUp,
     m_coefficient |-> calculateCoefficient(focus, concaveUp)]

\* Parabola::getY: y <= getY(x) + offset, getY(x) = dx*dx/coefficient + vertex.y
getYAtLeast(p, x, y, offset) ==
    LET dx == x - p.m_vertex.x
        den == Abs(p.m_coefficient)
        sgn == IF p.m_coefficient < 0 THEN -1 ELSE 1
    IN  den * y <= sgn * (dx * dx) + den * (p.m_vertex.y + offset)

\* Parabola::getY: y >= getY(x) + offset
getYAtMost(p, x, y, offset) ==
    LET dx == x - p.m_vertex.x
        den == Abs(p.m_coefficient)
        sgn == IF p.m_coefficient < 0 THEN -1 ELSE 1
    IN  den * y >= sgn * (dx * dx) + den * (p.m_vertex.y + offset)

\* DualParabolicWaveSimulation::setupParabolas
setupParabolas ==
    [major |-> Parabola(508, 100, Point2D(0, 100), FALSE),
     minor |-> Parabola(100, 50, Point2D(0, -50), TRUE),
     focusPoint |-> Point2D(0, 0)]

(***************************************************************************)
(* Grid geometry                                                           *)
(***************************************************************************)
GridDx(config) == (config.xMax - config.xMin) \div (config.gridSize - 1)

GridDy(config) == (config.yMax - config.yMin) \div (config.gridSize - 1)

Cells(config) == 0 .. (config.gridSize * config.gridSize - 1)

RowOf(config, index) == index \div config.gridSize

ColOf(config, index) == index % config.gridSize

\* WaveField::getGridCoordinates
getGridCoordinates(config, gridI, gridJ) ==
    Point2D(config.xMin + gridJ * GridDx(config), config.yMax - gridI * GridDy(config))

(***************************************************************************)
(* WaveField::validateCFLCondition                                         *)
(***************************************************************************)
c_parabolic == 1500

\* timeStep > 0.4 * minGridSpacing / (c_max * sqrt(2)), in exact arithmetic:
\* (timeStep*c_max)^2 * 2 * 1e-8 > 0.16 * minGridSpacing^2
ExceedsStableTimeStep_Factor05(timeStep, minGridSpacing, c_max) ==
    (timeStep * c_max) * (timeStep * c_max) > 12500000 * minGridSpacing * minGridSpacing

ExceedsStableTimeStep(timeStep, minGridSpacing, c_max) ==
    (timeStep * c_max) * (timeStep * c_max) > 8000000 * minGridSpacing * minGridSpacing

CflMaxSpeed_AirOnly(c_air) == c_air

CflMaxSpeed(c_air) == Max(c_air, c_parabolic)

validateCFLCondition(config, waveParams) ==
    LET dx == GridDx(config)
        dy == GridDy(config)
        minGridSpacing == Min(dx, dy)
        c_max == CflMaxSpeed(waveParams.speed)
    IN  IF ExceedsStableTimeStep(config.timeStep, minGridSpacing, c_max) THEN 1 ELSE 0

(***************************************************************************)
(* WaveField::createBoundaryMask                                           *)
(***************************************************************************)
majorDiameter == 508

majorFocus == 100

minorDiameter == 200

minorFocus == 50

parabolicThickness_30 == 30

parabolicThickness == 40

edgeMargin == 5

\* y <= majorY + offset, majorY = -(x*x)/(4*majorFocus) + majorFocus
BelowMajor(x, y, offset) ==
    4 * majorFocus * y <= -(x * x) + 4 * majorFocus * (majorFocus + offset)

\* y >= minorY - offset, minorY = (x*x)/(4*minorFocus) - minorFocus
AboveMinor(x, y, offset) ==
    4 * minorFocus * y >= (x * x) - 4 * minorFocus * (minorFocus + offset)

insideMajorParabola(x, y) == BelowMajor(x, y, 0) /\ 2 * Abs(x) <= majorDiameter

insideMajorParabolaInner(x, y) ==
    BelowMajor(x, y, parabolicThickness) /\ 2 * Abs(x) <= majorDiameter

outsideMinorParabola(x, y) == AboveMinor(x, y, 0) /\ 2 * Abs(x) <= minorDiameter

outsideMinorParabolaInner(x, y) ==
    AboveMinor(x, y, parabolicThickness) /\ 2 * Abs(x) <= minorDiameter

GeometryType_CavitySideShell(x, y) ==
    IF insideMajorParabola(x, y) /\ ~(BelowMajor(x, y, -parabolicThickness)) THEN PARABOLIC
    ELSE IF outsideMinorParabola(x, y) /\ ~(AboveMinor(x, y, -parabolicThickness)) THEN PARABOLIC
    ELSE AIR

GeometryType_RigidOutside(x, y) ==
    IF insideMajorParabolaInner(x, y) /\ ~insideMajorParabola(x, y) THEN PARABOLIC
    ELSE IF outsideMinorParabolaInner(x, y) /\ ~outsideMinorParabola(x, y) THEN PARABOLIC
    ELSE IF insideMajorParabola(x, y) /\ outsideMinorParabola(x, y) THEN AIR
    ELSE RIGID

\* material of the cell before the edge override (lines 106-119)
GeometryType(x, y) ==
    IF insideMajorParabolaInner(x, y) /\ ~insideMajorParabola(x, y) THEN PARABOLIC
    ELSE IF outsideMinorParabolaInner(x, y) /\ ~outsideMinorParabola(x, y) THEN PARABOLIC
    ELSE AIR

EdgeOverride_TopRowOpen(gridSize, i, j) ==
    (i >= 1 /\ i < edgeMargin) \/ i >= gridSize - edgeMargin
        \/ j < edgeMargin \/ j >= gridSize - edgeMargin

\* the edge test of lines 121-125
EdgeOverride(gridSize, i, j) ==
    i < edgeMargin \/ i >= gridSize - edgeMargin \/ j < edgeMargin \/ j >= gridSize - edgeMargin

boundaryTypeOf(config, i, j) ==
    LET p == getGridCoordinates(config, i, j)
    IN  IF EdgeOverride(config.gridSize, i, j) THEN RIGID ELSE GeometryType(p.x, p.y)

boundaryMaskOf_NoEdgeOverride(config, i, j) == 1

boundaryMaskOf(config, i, j) ==
    IF EdgeOverride(config.gridSize, i, j) THEN 0 ELSE 1

createBoundaryMask(config) ==
    [types |-> [index \in Cells(config) |->
                    boundaryTypeOf(config, RowOf(config, index), ColOf(config, index))],
     mask  |-> [index \in Cells(config) |->
                    boundaryMaskOf(config, RowOf(config, index), ColOf(config, index))]]

(***************************************************************************)
(* WaveField::calculateFocusPosition                                       *)
(***************************************************************************)
calculateFocusPosition(config, focusPoint) ==
    [i |-> Clamp(RoundDiv(config.yMax - focusPoint.y, GridDy(config)), 0, config.gridSize - 1),
     j |-> Clamp(RoundDiv(focusPoint.x - config.xMin, GridDx(config)), 0, config.gridSize - 1)]

(***************************************************************************)
(* WaveField::initializeGrids and the constructor                          *)
(***************************************************************************)
ZeroGrid(config) == [index \in Cells(config) |-> 0]

\* init_cond_u1 = init_cond_u0 + timeStep * init_cond_u0 with init_cond_u0 = 0
InitCondU0 == 0

InitCondU1_UnitVelocity(config) == InitCondU0 + config.timeStep * 1

InitCondU1(config) == InitCondU0 + config.timeStep * InitCondU0

WaveField(config, waveParams, majorParabola, minorParabola, focusPoint) ==
    LET bm == createBoundaryMask(config)
        fp == calculateFocusPosition(config, focusPoint)
    IN  [m_config |-> config,
         m_waveParams |-> waveParams,
         m_majorParabola |-> majorParabola,
         m_minorParabola |-> minorParabola,
         m_focusPoint |-> focusPoint,
         m_time |-> 0,
         warnings |-> validateCFLCondition(config, waveParams),
         m_grid |-> [index \in Cells(config) |-> InitCondU1(config)],
         m_previousGrid |-> [index \in Cells(config) |-> InitCondU0],
         m_sourceGrid |-> ZeroGrid(config),
         m_boundaryMask |-> bm.mask,
         m_boundaryTypes |-> bm.types,
         m_focusI |-> fp.i,
         m_focusJ |-> fp.j]

(***************************************************************************)
(* WaveField::addSourceExcitation                                          *)
(***************************************************************************)
\* 1000 * c_sigma * pi^(-1/4) * exp(-t*t/2) * (cos(6t) - kappa_sigma) for
\* t = -4, -3.75, ..., 4 (sigma = 6)
MorletTable ==
    <<0, -1, -1, 3, 6, -12, -25, 36, 86, -77, -222, 119, 437, -120, -656, 51,
      751,
      51, -656, -120, 437, 119, -222, -77, 86, 36, -25, -12, 6, 3, -1, -1, 0>>

\* morlet_value at scaledTime = quarter/4
morlet_value(quarter) == MorletTable[quarter + 17]

TimeScale_TwicePeriod(frequency) == 200 \div frequency

\* 1.0 / centralFreq, in time units
TimeScale(frequency) == 100 \div frequency

sourceGain == 15

SourceAmplitude_Additive(waveParams, time) ==
    LET timeScale == TimeScale(waveParams.frequency)
        pulseCenter == 3 * timeScale
        pulseDuration == 8 * timeScale
    IN  IF time <= pulseDuration /\ Abs(time - pulseCenter) <= 4 * timeScale
        THEN (waveParams.amplitude + sourceGain)
                 * morlet_value(TruncDiv(4 * (time - pulseCenter), timeScale))
        ELSE 0

SourceAmplitude_Repeats(waveParams, time) ==
    LET timeScale == TimeScale(waveParams.frequency)
        pulseCenter == 3 * timeScale
        pulseDuration == 8 * timeScale
        phase == time % pulseDuration
    IN  IF Abs(phase - pulseCenter) <= 4 * timeScale
        THEN (waveParams.amplitude * sourceGain)
                 * morlet_value(TruncDiv(4 * (phase - pulseCenter), timeScale))
        ELSE 0

\* the local "amplitude" of addSourceExcitation (lines 158-193)
SourceAmplitude(waveParams, time) ==
    LET timeScale == TimeScale(waveParams.frequency)
        pulseCenter == 3 * timeScale
        pulseDuration == 8 * timeScale
    IN  IF time <= pulseDuration /\ Abs(time - pulseCenter) <= 4 * timeScale
        THEN (waveParams.amplitude * sourceGain)
                 * morlet_value(TruncDiv(4 * (time - pulseCenter), timeScale))
        ELSE 0

FocusNeighbors(w) ==
    {<<w.m_focusI - 1, w.m_focusJ>>, <<w.m_focusI + 1, w.m_focusJ>>,
     <<w.m_focusI, w.m_focusJ - 1>>, <<w.m_focusI, w.m_focusJ + 1>>}

InGrid(gridSize, i, j) == i >= 0 /\ i < gridSize /\ j >= 0 /\ j < gridSize

SourceWrite_Accumulates(held, value) == held + value

\* the assignments to m_sourceGrid of lines 195 and 206: the cell, which the
\* std::fill of line 145 set to 0 (held is what it held before), takes the value
SourceWrite(held, value) == value

addSourceExcitation(w, time) ==
    LET gridSize == w.m_config.gridSize
        index == w.m_focusI * gridSize + w.m_focusJ
        amplitude == SourceAmplitude(w.m_waveParams, time)
        focusOpen == InGrid(gridSize, w.m_focusI, w.m_focusJ) /\ w.m_boundaryMask[index] # 0
    IN  [k \in Cells(w.m_config) |->
            IF ~focusOpen THEN 0
            ELSE IF k = index THEN SourceWrite(w.m_sourceGrid[k], amplitude)
            ELSE IF <<RowOf(w.m_config, k), ColOf(w.m_config, k)>> \in FocusNeighbors(w)
                    /\ w.m_boundaryMask[k] # 0
                 THEN SourceWrite(w.m_sourceGrid[k], TruncDiv(amplitude, 2))
            ELSE 0]

(***************************************************************************)
(* Finite differences                                                      *)
(***************************************************************************)
getFiniteDifferenceX(w, i, j) ==
    LET gridSize == w.m_config.gridSize
    IN  w.m_grid[i * gridSize + (j - 1)] - 2 * w.m_grid[i * gridSize + j]
            + w.m_grid[i * gridSize + (j + 1)]

getFiniteDifferenceY(w, i, j) ==
    LET gridSize == w.m_config.gridSize
    IN  w.m_grid[(i - 1) * gridSize + j] - 2 * w.m_grid[i * gridSize + j]
            + w.m_grid[(i + 1) * gridSize + j]

getMaterialAwareFiniteDifferenceX_SkipsOtherMaterial(w, i, j) ==
    LET gridSize == w.m_config.gridSize
        centerType == w.m_boundaryTypes[i * gridSize + j]
        leftType == IF j > 0 THEN w.m_boundaryTypes[i * gridSize + (j - 1)] ELSE RIGID
        rightType == IF j < gridSize - 1 THEN w.m_boundaryTypes[i * gridSize + (j + 1)] ELSE RIGID
        leftValue == IF j > 0 /\ leftType = centerType THEN w.m_grid[i * gridSize + (j - 1)] ELSE 0
        rightValue == IF j < gridSize - 1 /\ rightType = centerType
                      THEN w.m_grid[i * gridSize + (j + 1)] ELSE 0
    IN  leftValue - 2 * w.m_grid[i * gridSize + j] + rightValue

getMaterialAwareFiniteDifferenceX(w, i, j) ==
    LET gridSize == w.m_config.gridSize
        leftType == IF j > 0 THEN w.m_boundaryTypes[i * gridSize + (j - 1)] ELSE RIGID
        rightType == IF j < gridSize - 1 THEN w.m_boundaryTypes[i * gridSize + (j + 1)] ELSE RIGID
        leftValue == IF j > 0 /\ leftType # RIGID THEN w.m_grid[i * gridSize + (j - 1)] ELSE 0
        rightValue == IF j < gridSize - 1 /\ rightType # RIGID
                      THEN w.m_grid[i * gridSize + (j + 1)] ELSE 0
    IN  leftValue - 2 * w.m_grid[i * gridSize + j] + rightValue

getMaterialAwareFiniteDifferenceY(w, i, j) ==
    LET gridSize == w.m_config.gridSize
        topType == IF i > 0 THEN w.m_boundaryTypes[(i - 1) * gridSize + j] ELSE RIGID
        bottomType == IF i < gridSize - 1 THEN w.m_boundaryTypes[(i + 1) * gridSize + j] ELSE RIGID
        topValue == IF i > 0 /\ topType # RIGID THEN w.m_grid[(i - 1) * gridSize + j] ELSE 0
        bottomValue == IF i < gridSize - 1 /\ bottomType # RIGID
                       THEN w.m_grid[(i + 1) * gridSize + j] ELSE 0
    IN  topValue - 2 * w.m_grid[i * gridSize + j] + bottomValue

(***************************************************************************)
(* WaveField::applyWaveEquation                                            *)
(***************************************************************************)
Leapfrog_UndampedDenominator(previous, current, source, q0, q1, q2, q3, dampingFactor, dxx, dzz) ==
    LET dampingTerm == (dampingFactor * q0) \div DampScale
    IN  TruncDiv(-1 * QScale * (previous - 2 * current)
                    + dampingTerm * previous
                    + q1 * source
                    + q2 * dxx
                    + q3 * dzz,
                 QScale)

\* the update rule of lines 258-264 and 302-308
Leapfrog(previous, current, source, q0, q1, q2, q3, dampingFactor, dxx, dzz) ==
    LET dampingTerm == (dampingFactor * q0) \div DampScale
        denominator == QScale + dampingTerm
    IN  TruncDiv(-1 * QScale * (previous - 2 * current)
                    + dampingTerm * previous
                    + q1 * source
                    + q2 * dxx
                    + q3 * dzz,
                 denominator)

nearMaterialBoundary(w, i, j) ==
    LET gridSize == w.m_config.gridSize
        currentType == w.m_boundaryTypes[i * gridSize + j]
    IN  \/ (i > 0 /\ w.m_boundaryTypes[(i - 1) * gridSize + j] # currentType)
        \/ (i < gridSize - 1 /\ w.m_boundaryTypes[(i + 1) * gridSize + j] # currentType)
        \/ (j > 0 /\ w.m_boundaryTypes[i * gridSize + (j - 1)] # currentType)
        \/ (j < gridSize - 1 /\ w.m_boundaryTypes[i * gridSize + (j + 1)] # currentType)

\* The branch of the loop body that computes a cell (lines 231-296).
RuleRigid == "rigid"

RuleTopRow == "top row"

RuleAbsorb == "absorb"

RuleInterface == "interface"

RuleInterior == "interior"

CellRule_StencilEverywhere(w, i, j) == RuleInterior

CellRule(w, i, j) ==
    LET gridSize == w.m_config.gridSize
    IN  IF w.m_boundaryTypes[i * gridSize + j] = RIGID THEN RuleRigid
        ELSE IF i = 0 \/ i = gridSize - 1 \/ j = 0 \/ j = gridSize - 1
        THEN IF i = 0 /\ j > 0 /\ j < gridSize - 1 THEN RuleTopRow ELSE RuleAbsorb
        ELSE IF nearMaterialBoundary(w, i, j) THEN RuleInterface
        ELSE RuleInterior

\* The cells (row, column) whose buffer entries the code indexes.
\* getFiniteDifferenceX and getFiniteDifferenceY
StencilX(i, j) == {<<i, j - 1>>, <<i, j>>, <<i, j + 1>>}

StencilY(i, j) == {<<i - 1, j>>, <<i, j>>, <<i + 1, j>>}

\* the neighbour test of lines 280-283 and the material-aware differences,
\* which index a neighbour only behind i > 0, i < gridSize-1, j > 0, j < gridSize-1
GuardedNeighbors(gridSize, i, j) ==
    {<<i, j>>}
        \cup (IF i > 0 THEN {<<i - 1, j>>} ELSE {})
        \cup (IF i < gridSize - 1 THEN {<<i + 1, j>>} ELSE {})
        \cup (IF j > 0 THEN {<<i, j - 1>>} ELSE {})
        \cup (IF j < gridSize - 1 THEN {<<i, j + 1>>} ELSE {})

\* one iteration of the loop body of applyWaveEquation
CellAccesses(w, i, j) ==
    LET gridSize == w.m_config.gridSize
        rule == CellRule(w, i, j)
    IN  {<<i, j>>} \cup
        (IF rule = RuleRigid \/ rule = RuleAbsorb THEN {}
         ELSE IF rule = RuleTopRow THEN StencilX(i, j) \cup {<<i + 1, j>>}
         ELSE IF rule = RuleInterface THEN GuardedNeighbors(gridSize, i, j)
         ELSE GuardedNeighbors(gridSize, i, j) \cup StencilX(i, j) \cup StencilY(i, j))

\* addSourceExcitation after its std::fill
SourceAccesses(w) ==
    LET gridSize == w.m_config.gridSize
    IN  IF ~InGrid(gridSize, w.m_focusI, w.m_focusJ) THEN {}
        ELSE {<<w.m_focusI, w.m_focusJ>>} \cup
             (IF w.m_boundaryMask[w.m_focusI * gridSize + w.m_focusJ] # 0
              THEN {n \in FocusNeighbors(w) : InGrid(gridSize, n[1], n[2])}
              ELSE {})

\* update(): addSourceExcitation, applyWaveEquation, applyBoundaryConditions
UpdateAccesses(w) ==
    LET range == 0 .. (w.m_config.gridSize - 1)
    IN  SourceAccesses(w) \cup UNION {CellAccesses(w, i, j) : i \in range, j \in range}

\* newGrid[index] for a RIGID cell (lines 231-234)
RigidCellValue(w, index) == 0

\* one iteration of the loop body: the value written to newGrid[i*gridSize+j]
NewCellValue(w, i, j, dt) ==
    LET gridSize == w.m_config.gridSize
        index == i * gridSize + j
        dx == GridDx(w.m_config)
        dy == GridDy(w.m_config)
        c_air == w.m_waveParams.speed
        c_material == IF w.m_boundaryTypes[index] = PARABOLIC THEN c_parabolic ELSE c_air
        q0 == c_material * dt
        q1 == (q0 * q0) \div QScale
        q2 == ((q0 \div dx) * (q0 \div dx)) \div QScale
        q3 == ((q0 \div dy) * (q0 \div dy)) \div QScale
        damping == w.m_config.dampingFactor
        rule == CellRule(w, i, j)
    IN  IF rule = RuleRigid THEN RigidCellValue(w, index)
        ELSE IF rule = RuleTopRow
        THEN Leapfrog(w.m_previousGrid[index], w.m_grid[index], w.m_sourceGrid[index],
                      q0, q1, q2, q3, damping,
                      getFiniteDifferenceX(w, i, j),
                      2 * (w.m_grid[(i + 1) * gridSize + j] - w.m_grid[index]))
        ELSE IF rule = RuleAbsorb THEN 0
        ELSE IF rule = RuleInterface
        THEN Leapfrog(w.m_previousGrid[index], w.m_grid[index], w.m_sourceGrid[index],
                      q0, q1, q2, q3, damping,
                      getMaterialAwareFiniteDifferenceX(w, i, j),
                      getMaterialAwareFiniteDifferenceY(w, i, j))
        ELSE Leapfrog(w.m_previousGrid[index], w.m_grid[index], w.m_sourceGrid[index],
                      q0, q1, q2, q3, damping,
                      getFiniteDifferenceX(w, i, j),
                      getFiniteDifferenceY(w, i, j))

\* Orders in which the rows of the "omp parallel for" loops may be executed.
RowsAscending(gridSize) == [k \in 1 .. gridSize |-> k - 1]

RowsDescending(gridSize) == [k \in 1 .. gridSize |-> gridSize - k]

RowsInterleaved(gridSize) ==
    [k \in 1 .. gridSize |->
        IF 2 * k <= gridSize + 1 THEN 2 * (k - 1) ELSE 2 * (k - (gridSize + 1) \div 2) - 1]

Schedules(gridSize) ==
    {RowsAscending(gridSize), RowsDescending(gridSize), RowsInterleaved(gridSize)}

LoopView_SwapPerRow(w, newGrid, i) ==
    [w EXCEPT !.m_previousGrid = [index \in DOMAIN @ |->
                                    IF RowOf(w.m_config, index) = i
                                    THEN w.m_grid[index] ELSE @[index]],
              !.m_grid = [index \in DOMAIN @ |->
                            IF RowOf(w.m_config, index) = i THEN newGrid[index] ELSE @[index]]]

LoopView_InPlace(w, newGrid, i) ==
    [w EXCEPT !.m_grid = [index \in DOMAIN @ |->
                            IF RowOf(w.m_config, index) = i THEN newGrid[index] ELSE @[index]]]

\* What the iterations still to run read once row i has been written:
\* the members of the object; newGrid is a separate local vector (line 222).
LoopView(w, newGrid, i) == w

RECURSIVE RowLoop(_, _, _, _)
RowLoop(w, newGrid, dt, rows) ==
    IF rows = <<>> THEN newGrid
    ELSE LET i == Head(rows)
             written == [index \in DOMAIN newGrid |->
                            IF RowOf(w.m_config, index) = i
                            THEN NewCellValue(w, i, ColOf(w.m_config, index), dt)
                            ELSE newGrid[index]]
         IN  RowLoop(LoopView(w, written, i), written, dt, Tail(rows))

\* WaveField::applyBoundaryConditions, for one cell of one buffer
RigidEnforced(w, grid, index) ==
    IF w.m_boundaryTypes[index] = RIGID THEN 0 ELSE grid[index]

applyBoundaryConditions(w) ==
    [w EXCEPT !.m_grid = [index \in DOMAIN @ |-> RigidEnforced(w, @, index)],
              !.m_previousGrid = [index \in DOMAIN @ |-> RigidEnforced(w, @, index)]]

applyWaveEquation_PreviousNotSaved(w, dt, rows) ==
    LET newGrid == RowLoop(w, ZeroGrid(w.m_config), dt, rows)
    IN  applyBoundaryConditions([w EXCEPT !.m_grid = newGrid])

applyWaveEquation(w, dt, rows) ==
    LET newGrid == RowLoop(w, ZeroGrid(w.m_config), dt, rows)
    IN  applyBoundaryConditions([w EXCEPT !.m_previousGrid = w.m_grid, !.m_grid = newGrid])

(***************************************************************************)
(* Public operations of WaveField                                          *)
(***************************************************************************)
update_ClockSetToDt(w, dt, rows) ==
    LET timed == [w EXCEPT !.m_time = dt]
        excited == [timed EXCEPT !.m_sourceGrid = addSourceExcitation(timed, timed.m_time)]
    IN  applyWaveEquation(excited, dt, rows)

update_ValidatesDt(w, dt, rows) ==
    LET checked == [w EXCEPT !.warnings =
                        @ + validateCFLCondition([w.m_config EXCEPT !.timeStep = dt],
                                                 w.m_waveParams)]
        timed == [checked EXCEPT !.m_time = @ + dt]
        excited == [timed EXCEPT !.m_sourceGrid = addSourceExcitation(timed, timed.m_time)]
    IN  applyWaveEquation(excited, dt, rows)

update(w, dt, rows) ==
    LET timed == [w EXCEPT !.m_time = @ + dt]
        excited == [timed EXCEPT !.m_sourceGrid = addSourceExcitation(timed, timed.m_time)]
    IN  applyWaveEquation(excited, dt, rows)

reset_StaleSource(w) ==
    [w EXCEPT !.m_time = 0,
              !.m_grid = [index \in DOMAIN @ |-> InitCondU1(w.m_config)],
              !.m_previousGrid = [index \in DOMAIN @ |-> InitCondU0]]

reset(w) ==
    [w EXCEPT !.m_time = 0,
              !.m_grid = [index \in DOMAIN @ |-> InitCondU1(w.m_config)],
              !.m_previousGrid = [index \in DOMAIN @ |-> InitCondU0],
              !.m_sourceGrid = [index \in DOMAIN @ |-> 0]]

setFrequency_RestartsPulse(w, frequency) ==
    [w EXCEPT !.m_waveParams.frequency = frequency,
              !.m_waveParams.wavelength = (w.m_waveParams.speed * 100) \div frequency,
              !.m_time = 0]

setFrequency(w, frequency) ==
    [w EXCEPT !.m_waveParams.frequency = frequency,
              !.m_waveParams.wavelength = (w.m_waveParams.speed * 100) \div frequency]

setAmplitude(w, amplitude) == [w EXCEPT !.m_waveParams.amplitude = amplitude]

(***************************************************************************)
(* Constructor arguments                                                   *)
(***************************************************************************)
SimulationConfig(gridSize, xMin, xMax, yMin, yMax, timeStep, dampingFactor) ==
    [gridSize |-> gridSize, xMin |-> xMin, xMax |-> xMax, yMin |-> yMin, yMax |-> yMax,
     timeStep |-> timeStep, dampingFactor |-> dampingFactor, reflectionCoeff |-> 950]

WaveParams(frequency, speed, amplitude) ==
    [frequency |-> frequency, wavelength |-> (speed * 100) \div frequency,
     speed |-> speed, amplitude |-> amplitude]

CtorArgs(config, waveParams, focusPoint) ==
    [config |-> config, waveParams |-> waveParams,
     majorParabola |-> setupParabolas.major, minorParabola |-> setupParabolas.minor,
     focusPoint |-> focusPoint]

Construct(a) == WaveField(a.config, a.waveParams, a.majorParabola, a.minorParabola, a.focusPoint)

DtChoices == {1, 2}

AmplitudeChoices == {0, 1}

FrequencyChoices == {50, 100}

SpeedChoices == {343, 3000}

NoInstance == <<>>

\* a 13 x 13 grid of 1 mm cells across the vertex of the major reflector
GridVertex(timeStep, dampingFactor) ==
    SimulationConfig(13, -6, 6, 94, 106, timeStep, dampingFactor)

FieldConfigs == {GridVertex(1, d) : d \in {0, 50}}

FieldFocusPoints == {Point2D(0, 100), Point2D(0, 0)}

FieldArgs ==
    {CtorArgs(c, WaveParams(100, s, a), p) :
        c \in FieldConfigs, s \in SpeedChoices, a \in AmplitudeChoices, p \in FieldFocusPoints}

(***************************************************************************)
(* Specification of one WaveField driven through its public operations    *)
(***************************************************************************)
Init ==
    /\ args \in FieldArgs
    /\ wf = Construct(args)
    /\ wf2 = NoInstance

Update ==
    \E dt \in DtChoices, rows \in Schedules(wf.m_config.gridSize) :
        /\ wf.m_time + dt <= MaxTime
        /\ wf' = update(wf, dt, rows)
        /\ UNCHANGED <<args, wf2>>

Reset ==
    /\ wf' = reset(wf)
    /\ UNCHANGED <<args, wf2>>

SetFrequency ==
    \E frequency \in FrequencyChoices :
        /\ wf' = setFrequency(wf, frequency)
        /\ UNCHANGED <<args, wf2>>

SetAmplitude ==
    \E amplitude \in AmplitudeChoices :
        /\ wf' = setAmplitude(wf, amplitude)
        /\ UNCHANGED <<args, wf2>>

Next == Update \/ Reset \/ SetFrequency \/ SetAmplitude

Spec == Init /\ [][Next]_vars

(***************************************************************************)
(* Specification of construction over a wide range of configurations      *)
(***************************************************************************)
\* the default domain of the simulation at 51 x 51 cells (dx = 12, dy = 5)
GridDefaultDomain(timeStep) == SimulationConfig(51, -300, 300, -100, 150, timeStep, 1)

\* 10 mm cells beyond the rim of the major reflector
GridBeyondRim(timeStep) == SimulationConfig(13, 200, 320, -60, 60, timeStep, 1)

\* grids without and with a single interior cell
GridTiny(timeStep) == SimulationConfig(9, -8, 8, -8, 8, timeStep, 1)

GridSingle(timeStep) == SimulationConfig(11, -10, 10, 90, 110, timeStep, 1)

CtorConfigs ==
    {GridDefaultDomain(1)} \cup
    UNION {{GridVertex(ts, 1), GridBeyondRim(ts), GridTiny(ts), GridSingle(ts)} :
               ts \in 0 .. MaxTimeStep}

\* a focus point whose cell is in the edge margin of GridVertex, next to an
\* interior cell
FocusInMargin == Point2D(0, 102)

CtorArgsSet ==
    {CtorArgs(c, WaveParams(100, s, 1), setupParabolas.focusPoint) :
        c \in CtorConfigs, s \in SpeedChoices}
    \cup {CtorArgs(GridVertex(1, 1), WaveParams(100, s, 1), FocusInMargin) : s \in SpeedChoices}

CtorInit ==
    /\ args \in CtorArgsSet
    /\ wf = Construct(args)
    /\ wf2 = NoInstance

CtorUpdate ==
    \E dt \in DtChoices, rows \in Schedules(wf.m_config.gridSize) :
        /\ wf.m_time + dt <= CtorMaxTime
        /\ wf' = update(wf, dt, rows)
        /\ UNCHANGED <<args, wf2>>

CtorReset ==
    /\ wf' = reset(wf)
    /\ UNCHANGED <<args, wf2>>

CtorNext == CtorUpdate \/ CtorReset

SpecCtor == CtorInit /\ [][CtorNext]_vars

(***************************************************************************)
(* Specification of two WaveField instances given the same calls          *)
(***************************************************************************)
PairArgs ==
    {CtorArgs(GridVertex(1, d), WaveParams(100, s, 1), Point2D(0, 100)) :
        d \in {0, 50}, s \in SpeedChoices}

PairInit ==
    /\ args \in PairArgs
    /\ wf = Construct(args)
    /\ wf2 = Construct(args)

PairUpdate ==
    \E dt \in DtChoices :
        \E rows1 \in Schedules(wf.m_config.gridSize), rows2 \in Schedules(wf2.m_config.gridSize) :
            /\ wf.m_time + dt <= PairMaxTime
            /\ wf' = update(wf, dt, rows1)
            /\ wf2' = update(wf2, dt, rows2)
            /\ UNCHANGED args

PairReset ==
    /\ wf' = reset(wf)
    /\ wf2' = reset(wf2)
    /\ UNCHANGED args

PairSetFrequency ==
    \E frequency \in FrequencyChoices :
        /\ wf' = setFrequency(wf, frequency)
        /\ wf2' = setFrequency(wf2, frequency)
        /\ UNCHANGED args

PairSetAmplitude ==
    \E amplitude \in AmplitudeChoices :
        /\ wf' = setAmplitude(wf, amplitude)
        /\ wf2' = setAmplitude(wf2, amplitude)
        /\ UNCHANGED args

PairNext == PairUpdate \/ PairReset \/ PairSetFrequency \/ PairSetAmplitude

SpecPair == PairInit /\ [][PairNext]_vars

(***************************************************************************)
(* Specification of a damped WaveField run past the end of its pulse       *)
(***************************************************************************)
DecayMaxTime == 12

DecaySpeeds == {343, 1000}

DecayFocusPoints == {Point2D(0, 100), Point2D(0, 99), Point2D(1, 101)}

DecayArgs ==
    {CtorArgs(GridVertex(1, 50), WaveParams(100, s, 1), p) :
        s \in DecaySpeeds, p \in DecayFocusPoints}

DecayInit ==
    /\ args \in DecayArgs
    /\ wf = Construct(args)
    /\ wf2 = NoInstance

DecayUpdate ==
    \E dt \in DtChoices, rows \in Schedules(wf.m_config.gridSize) :
        /\ wf.m_time + dt <= DecayMaxTime
        /\ wf' = update(wf, dt, rows)
        /\ UNCHANGED <<args, wf2>>

DecayReset ==
    /\ wf' = reset(wf)
    /\ UNCHANGED <<args, wf2>>

DecayNext == DecayUpdate \/ DecayReset

SpecDecay == DecayInit /\ [][DecayNext]_vars

(***************************************************************************)
(* DualParabolicWaveSimulation                                             *)
(*                                                                         *)
(* The default grid has 300 x 300 cells over 600 mm x 250 mm, so its       *)
(* spacings are not whole millimetres.  In this layer a spacing is the     *)
(* exact quotient extent/(gridSize - 1) mm, a time is in units of 1e-10 s  *)
(* and a frequency is in Hz; speeds stay in units of 1e3 mm/s (m/s).       *)
(***************************************************************************)
\* DualParabolicWaveSimulation::setupWaveParameters
setupWaveParameters ==
    [frequency |-> 1000, wavelength |-> (343 * 1000) \div 1000, speed |-> 343, amplitude |-> 1]

\* 0.4 * (extent/cells) / (speed * sqrt(2)) seconds, in units of 1e-10 s
maxStableTimeStep(extent, cells, speed) == (2828427 * extent) \div (cells * speed)

\* min(dx, dy) as the extent of the quotient extent/(gridSize - 1)
minGridSpacingExtent(config) == Min(config.xMax - config.xMin, config.yMax - config.yMin)

\* DualParabolicWaveSimulation::setupSimulationConfig
setupSimulationConfig(waveParams) ==
    LET domain == [xMin |-> -300, xMax |-> 300, yMin |-> -100, yMax |-> 150, gridSize |-> 300]
    IN  [xMin |-> domain.xMin, xMax |-> domain.xMax, yMin |-> domain.yMin, yMax |-> domain.yMax,
         gridSize |-> domain.gridSize,
         timeStep |-> maxStableTimeStep(minGridSpacingExtent(domain), domain.gridSize - 1,
                                        waveParams.speed),
         dampingFactor |-> 1,
         reflectionCoeff |-> 950]

\* DualParabolicWaveSimulation::initializeWaveField: the WaveField constructor
\* keeps the configuration and the wave parameters and runs
\* validateCFLCondition on them; its buffers are no part of this layer.
initializeWaveField(config, waveParams) ==
    [m_config |-> config,
     m_waveParams |-> waveParams,
     warnings |-> IF config.timeStep > maxStableTimeStep(minGridSpacingExtent(config),
                                                         config.gridSize - 1,
                                                         CflMaxSpeed(waveParams.speed))
                  THEN 1 ELSE 0]

\* the default constructor
DualParabolicWaveSimulation ==
    LET waveParams == setupWaveParameters
        config == setupSimulationConfig(waveParams)
    IN  [m_config |-> config, m_waveParams |-> waveParams,
         m_waveField |-> initializeWaveField(config, waveParams)]

\* the constructor with (gridSize, domainSize, waveSpeed, timeStep, simulationSpeed);
\* simulationSpeed is not used by it
DualParabolicWaveSimulationCustom(gridSize, domainSize, waveSpeed, timeStep) ==
    LET config == [setupSimulationConfig(setupWaveParameters) EXCEPT
                       !.gridSize = gridSize,
                       !.xMin = -(domainSize \div 2), !.xMax = domainSize \div 2,
                       !.yMin = -(domainSize \div 2), !.yMax = domainSize \div 2,
                       !.timeStep = timeStep]
        waveParams == [setupWaveParameters EXCEPT !.speed = waveSpeed]
    IN  [m_config |-> config, m_waveParams |-> waveParams,
         m_waveField |-> initializeWaveField(config, waveParams)]

\* DualParabolicWaveSimulation::setFrequency, with WaveField::setFrequency
SimulationSetFrequency(sim, frequency) ==
    [sim EXCEPT !.m_waveParams.frequency = frequency,
                !.m_waveParams.wavelength = (sim.m_waveParams.speed * 1000) \div frequency,
                !.m_waveField.m_waveParams.frequency = frequency,
                !.m_waveField.m_waveParams.wavelength =
                     (sim.m_waveField.m_waveParams.speed * 1000) \div frequency]

\* DualParabolicWaveSimulation::setAmplitude, with WaveField::setAmplitude
SimulationSetAmplitude(sim, amplitude) ==
    [sim EXCEPT !.m_waveParams.amplitude = amplitude,
                !.m_waveField.m_waveParams.amplitude = amplitude]

\* DualParabolicWaveSimulation::getTimeStep, the step of the parameterless update()
getTimeStep(sim) == sim.m_config.timeStep

\* DualParabolicWaveSimulation::getDomainSize
getDomainSize(sim) == sim.m_config.xMax - sim.m_config.xMin

(***************************************************************************)
(* Specification of the construction of the simulation                     *)
(***************************************************************************)
DefaultCtor == [ctor |-> "default"]

CustomCtor(gridSize, domainSize, waveSpeed, timeStep) ==
    [ctor |-> "custom", gridSize |-> gridSize, domainSize |-> domainSize,
     waveSpeed |-> waveSpeed, timeStep |-> timeStep]

SimGridSizes == {11, 101, 300}

SimDomainSizes == {10, 100, 600}

SimWaveSpeeds == {343, 1500, 3000}

SimTimeSteps == {0, 100, 1000, 5000, 20000}

SimFrequencies == {500, 1000, 2000}

SimArgs ==
    {DefaultCtor} \cup
    {CustomCtor(n, d, s, ts) :
        n \in SimGridSizes, d \in SimDomainSizes, s \in SimWaveSpeeds, ts \in SimTimeSteps}

ConstructSimulation(a) ==
    IF a.ctor = "default" THEN DualParabolicWaveSimulation
    ELSE DualParabolicWaveSimulationCustom(a.gridSize, a.domainSize, a.waveSpeed, a.timeStep)

SimInit ==
    /\ args \in SimArgs
    /\ wf = ConstructSimulation(args)
    /\ wf2 = NoInstance

SimSetFrequency ==
    \E frequency \in SimFrequencies :
        /\ wf' = SimulationSetFrequency(wf, frequency)
        /\ UNCHANGED <<args, wf2>>

SimSetAmplitude ==
    \E amplitude \in AmplitudeChoices :
        /\ wf' = SimulationSetAmplitude(wf, amplitude)
        /\ UNCHANGED <<args, wf2>>

SimNext == SimSetFrequency \/ SimSetAmplitude

SpecSim == SimInit /\ [][SimNext]_vars

(***************************************************************************)
(* Specification of the simulation's update and reset with a callback      *)
(*                                                                         *)
(* wf is the simulation: its WaveField and whether a callback is           *)
(* registered.  wf2 is the component behind the callback: how often it was *)
(* called and the field it read through getWaveField when it was called.   *)
(***************************************************************************)
CallbackMaxTime == 3

MaxCalls == 4

CallbackArgs ==
    {CtorArgs(GridVertex(1, d), WaveParams(100, s, 1), Point2D(0, 100)) :
        d \in {0, 50}, s \in SpeedChoices}

\* m_updateCallback(): the registered function reads the field
UpdateCallback(observer, field) == [calls |-> observer.calls + 1, seen |-> field]

SimulationUpdate_CallbackFirst(sim, observer, dt, rows) ==
    [sim |-> [sim EXCEPT !.m_waveField = update(sim.m_waveField, dt, rows)],
     observer |-> IF sim.m_updateCallback THEN UpdateCallback(observer, sim.m_waveField)
                  ELSE observer]

\* DualParabolicWaveSimulation::update(double dt)
SimulationUpdate(sim, observer, dt, rows) ==
    LET field == update(sim.m_waveField, dt, rows)
    IN  [sim |-> [sim EXCEPT !.m_waveField = field],
         observer |-> IF sim.m_updateCallback THEN UpdateCallback(observer, field)
                      ELSE observer]

\* DualParabolicWaveSimulation::reset
SimulationReset(sim, observer) ==
    LET field == reset(sim.m_waveField)
    IN  [sim |-> [sim EXCEPT !.m_waveField = field],
         observer |-> IF sim.m_updateCallback THEN UpdateCallback(observer, field)
                      ELSE observer]

\* DualParabolicWaveSimulation::setUpdateCallback
setUpdateCallback(sim) == [sim EXCEPT !.m_updateCallback = TRUE]

CallbackInit ==
    /\ args \in CallbackArgs
    /\ wf = [m_waveField |-> Construct(args), m_updateCallback |-> FALSE]
    /\ wf2 = [calls |-> 0, seen |-> NoInstance]

CallbackUpdate ==
    \E dt \in DtChoices, rows \in Schedules(wf.m_waveField.m_config.gridSize) :
        /\ wf.m_waveField.m_time + dt <= CallbackMaxTime
        /\ wf2.calls < MaxCalls
        /\ wf' = SimulationUpdate(wf, wf2, dt, rows).sim
        /\ wf2' = SimulationUpdate(wf, wf2, dt, rows).observer
        /\ UNCHANGED args

CallbackReset ==
    /\ wf2.calls < MaxCalls
    /\ wf' = SimulationReset(wf, wf2).sim
    /\ wf2' = SimulationReset(wf, wf2).observer
    /\ UNCHANGED args

CallbackRegister ==
    /\ wf' = setUpdateCallback(wf)
    /\ UNCHANGED <<args, wf2>>

CallbackNext == CallbackUpdate \/ CallbackReset \/ CallbackRegister

SpecCallback == CallbackInit /\ [][CallbackNext]_vars

(***************************************************************************)
(* Specification of a WaveField run past its pulse with setter calls       *)
(***************************************************************************)
PulseMaxTime == 10

PulseDtChoices == {2}

PulseAmplitudes == {1, 2}

PulseArgs ==
    {CtorArgs(GridVertex(1, 0), WaveParams(f, 343, 1), Point2D(0, 100)) : f \in FrequencyChoices}

PulseInit ==
    /\ args \in PulseArgs
    /\ wf = Construct(args)
    /\ wf2 = NoInstance

PulseUpdate ==
    \E dt \in PulseDtChoices, rows \in Schedules(wf.m_config.gridSize) :
        /\ wf.m_time + dt <= PulseMaxTime
        /\ wf' = update(wf, dt, rows)
        /\ UNCHANGED <<args, wf2>>

PulseReset ==
    /\ wf' = reset(wf)
    /\ UNCHANGED <<args, wf2>>

PulseSetFrequency ==
    \E frequency \in FrequencyChoices :
        /\ wf' = setFrequency(wf, frequency)
        /\ UNCHANGED <<args, wf2>>

PulseSetAmplitude ==
    \E amplitude \in PulseAmplitudes :
        /\ wf' = setAmplitude(wf, amplitude)
        /\ UNCHANGED <<args, wf2>>

PulseNext == PulseUpdate \/ PulseReset \/ PulseSetFrequency \/ PulseSetAmplitude

SpecPulse == PulseInit /\ [][PulseNext]_vars

(***************************************************************************)
(* Specification of WaveFields on grids from 2 x 2 cells                   *)
(***************************************************************************)
SmallMaxTime == 3

SmallGridSizes == {2, 3, 4, 5, 7, 11, 12, 13, 15}

\* a grid of n x n cells from the corner (-6, 106), 12 mm across up to n = 7
\* and of 1 mm cells above
SmallGrid(n) ==
    LET spacing == Max(1, 12 \div (n - 1))
    IN  SimulationConfig(n, -6, spacing * (n - 1) - 6, 106 - spacing * (n - 1), 106, 1, 1)

\* focus points in the middle, on a corner cell and far outside the domain
SmallFocusPoints ==
    {Point2D(-1, 101), Point2D(0, 100), Point2D(-6, 106), Point2D(1000, -1000),
     Point2D(-1000, 1000)}

SmallArgs ==
    {CtorArgs(SmallGrid(n), WaveParams(100, 343, 1), p) :
        n \in SmallGridSizes, p \in SmallFocusPoints}

SmallInit ==
    /\ args \in SmallArgs
    /\ wf = Construct(args)
    /\ wf2 = NoInstance

SmallUpdate ==
    \E dt \in DtChoices, rows \in Schedules(wf.m_config.gridSize) :
        /\ wf.m_time + dt <= SmallMaxTime
        /\ wf' = update(wf, dt, rows)
        /\ UNCHANGED <<args, wf2>>

SmallReset ==
    /\ wf' = reset(wf)
    /\ UNCHANGED <<args, wf2>>

SmallNext == SmallUpdate \/ SmallReset

SpecSmall == SmallInit /\ [][SmallNext]_vars

(***************************************************************************)
(* wave_data_exporter                                                      *)
(*                                                                         *)
(* A length of this layer is held in thousandths of its unit, so that the  *)
(* metres the exporter passes on are exact; a time is in units of 1e-13 s, *)
(* the scale at which maxStableTimeStep takes extents in thousandths of a  *)
(* millimetre.  The simulation is its configuration and clock; a snapshot  *)
(* is the step at which it was written.                                    *)
(***************************************************************************)
Thousandths == 1000

\* the timeStep argument 1e-8 of line 126
ExporterTimeStep == 100000

captureInterval == 10

ExporterWaveSpeed == 343

\* main() up to the time loop (lines 96-146): argv, the printed
\* configuration, the simulation and metadata.txt
ExporterStart(gridSize, domainSize, duration) ==
    LET simulation == DualParabolicWaveSimulationCustom(
                          gridSize, (domainSize * Thousandths) \div 1000,
                          ExporterWaveSpeed, ExporterTimeStep)
        timeStep == getTimeStep(simulation)
        totalSteps == duration \div timeStep
    IN  [simulation |-> simulation,
         m_time |-> 0,
         printed |-> [gridSize |-> gridSize, domainSize |-> domainSize * Thousandths,
                      timeStep |-> timeStep],
         metadata |-> [grid_size |-> simulation.m_config.gridSize,
                       domain_size_mm |-> getDomainSize(simulation) * 1000,
                       time_step_s |-> timeStep,
                       num_time_steps |-> totalSteps \div captureInterval],
         totalSteps |-> totalSteps,
         step |-> 0,
         captureCount |-> 0]

\* one iteration of the time loop (lines 152-166)
ExporterLoopBody(e) ==
    [e EXCEPT !.m_time = IF e.step > 0 THEN @ + getTimeStep(e.simulation) ELSE @,
              !.captureCount = IF e.step % captureInterval = 0 THEN @ + 1 ELSE @,
              !.step = @ + 1]

ExportGridSizes == {11, 101, 200}

ExportDomainSizes == {100, 300, 600}

\* 2e-7 s and 3.5e-7 s
ExportDurations == {2000000, 3500000}

ExportArgs ==
    {[gridSize |-> n, domainSize |-> d, duration |-> t] :
        n \in ExportGridSizes, d \in ExportDomainSizes, t \in ExportDurations}

ExportInit ==
    /\ args \in ExportArgs
    /\ wf = ExporterStart(args.gridSize, args.domainSize, args.duration)
    /\ wf2 = NoInstance

ExportStep ==
    /\ wf.step < wf.totalSteps
    /\ wf' = ExporterLoopBody(wf)
    /\ UNCHANGED <<args, wf2>>

SpecExport == ExportInit /\ [][ExportStep]_vars

(***************************************************************************)
(* Parabola::getNormal and WaveField::calculateParabolicNormal             *)
(*                                                                         *)
(* A component of a normal is held in thousandths.  The slope 2a(x - x0)   *)
(* is the fraction 2(x - x0) / m_coefficient of whole numbers, with        *)
(* m_coefficient the signed denominator 4f of a.                           *)
(***************************************************************************)
NormalScale == 1000

RECURSIVE IsqrtBetween(_, _, _)
IsqrtBetween(v, lo, hi) ==
    IF lo >= hi THEN lo
    ELSE LET mid == (lo + hi + 1) \div 2
         IN  IF mid * mid <= v THEN IsqrtBetween(v, mid, hi) ELSE IsqrtBetween(v, lo, mid - 1)

\* std::sqrt of the whole number v, rounded down
Isqrt(v) == IsqrtBetween(v, 0, 46340)

Sign(v) == IF v < 0 THEN -1 ELSE 1

\* Parabola::getNormal.  With slope = 0 the division -1.0 / slope is infinite,
\* length is infinite, 1.0 / length is 0 and normalSlope / length is not a
\* number: nan says that y holds no number.
getNormal(p, x) ==
    LET num == 2 * (x - p.m_vertex.x)
        den == p.m_coefficient
        tenLength == Isqrt(100 * (num * num + den * den))
    IN  IF num = 0 THEN [x |-> 0, y |-> 0, nan |-> TRUE]
        ELSE [x |-> TruncDiv(10 * NormalScale * Abs(num), tenLength),
              y |-> TruncDiv(-(10 * NormalScale * den * Sign(num)), tenLength),
              nan |-> FALSE]

\* |y - getY(x)| of the major parabola < that of the minor parabola
closerToMajor(major, minor, x, y) ==
    LET dxMajor == x - major.m_vertex.x
        dxMinor == x - minor.m_vertex.x
        distMajorNum == Abs(major.m_coefficient * (y - major.m_vertex.y) - dxMajor * dxMajor)
        distMinorNum == Abs(minor.m_coefficient * (y - minor.m_vertex.y) - dxMinor * dxMinor)
    IN  distMajorNum * Abs(minor.m_coefficient) < distMinorNum * Abs(major.m_coefficient)

\* WaveField::calculateParabolicNormal: (-slope, 1) over its magnitude, which
\* is 1 or more and so above the 1e-10 of the guard
calculateParabolicNormal(major, minor, x, y) ==
    LET p == IF closerToMajor(major, minor, x, y) THEN major ELSE minor
        num == 2 * (x - p.m_vertex.x)
        den == p.m_coefficient
        tenMagnitude == Isqrt(100 * (num * num + den * den))
    IN  [x |-> TruncDiv(-(10 * NormalScale * num * Sign(den)), tenMagnitude),
         y |-> TruncDiv(10 * NormalScale * Abs(den), tenMagnitude),
         nan |-> FALSE]

NormalMaxX == 30

NormalXs == (0 - NormalMaxX) .. NormalMaxX

NormalYs == {-50, 0, 100}

NormalParabolas == {"major", "minor"}

NormalsAt(which, x, y) ==
    LET p == IF which = "major" THEN setupParabolas.major ELSE setupParabolas.minor
    IN  [parabola |-> p, x |-> x, y |-> y,
         normal |-> getNormal(p, x),
         fieldNormal |-> calculateParabolicNormal(setupParabolas.major, setupParabolas.minor,
                                                  x, y)]

NormalInit ==
    /\ args \in NormalParabolas
    /\ wf = NormalsAt(args, NormalMaxX, 0)
    /\ wf2 = NoInstance

NormalEvaluate ==
    \E x \in NormalXs, y \in NormalYs :
        /\ wf' = NormalsAt(args, x, y)
        /\ UNCHANGED <<args, wf2>>

SpecNormal == NormalInit /\ [][NormalEvaluate]_vars

(***************************************************************************)
(* Properties                                                              *)
(***************************************************************************)
GridIndices == 0 .. (wf.m_config.gridSize - 1)

IndexOf(i, j) == i * wf.m_config.gridSize + j

CellX(i, j) == getGridCoordinates(wf.m_config, i, j).x

CellY(i, j) == getGridCoordinates(wf.m_config, i, j).y

\* within 5 cells of the grid border
InMargin5(i, j) ==
    i < 5 \/ i >= wf.m_config.gridSize - 5 \/ j < 5 \/ j >= wf.m_config.gridSize - 5

ZeroBuffers(w) ==
    \A index \in DOMAIN w.m_grid : w.m_grid[index] = 0 /\ w.m_previousGrid[index] = 0

FocusIndex(w) == w.m_focusI * w.m_config.gridSize + w.m_focusJ

\* C1: every RIGID cell holds 0 in the current and in the previous buffer,
\* after construction and after every update, reset, setFrequency and
\* setAmplitude.
C1_RigidZero ==
    \A index \in DOMAIN wf.m_boundaryTypes :
        wf.m_boundaryTypes[index] = RIGID =>
            wf.m_grid[index] = 0 /\ wf.m_previousGrid[index] = 0

\* an update has run and a RIGID cell has a horizontal neighbour that carries a wave
C1_Witness ==
    /\ wf.m_time > 0
    /\ \E i \in GridIndices, j \in 1 .. (wf.m_config.gridSize - 1) :
          /\ wf.m_boundaryTypes[IndexOf(i, j - 1)] = RIGID
          /\ wf.m_grid[IndexOf(i, j)] # 0
          /\ wf.m_previousGrid[IndexOf(i, j)] # 0

\* C2: with amplitude 0 and both buffers 0, an update (any dt, frequency,
\* damping, grid) leaves every cell of both buffers 0; the amplitude is
\* untouched by the update, so this carries over any number of updates.
C2_ZeroInput ==
    [][(/\ wf.m_waveParams.amplitude = 0
        /\ ZeroBuffers(wf)
        /\ wf'.m_time > wf.m_time)
        => (ZeroBuffers(wf') /\ wf'.m_waveParams.amplitude = 0)]_vars

\* updates have run with amplitude 0 at a focus that is open, at a time where
\* the wavelet is not 0, and the buffers are still 0
C2_Witness ==
    /\ wf.m_waveParams.amplitude = 0
    /\ wf.m_time >= 2
    /\ wf.m_boundaryMask[FocusIndex(wf)] # 0
    /\ SourceAmplitude([wf.m_waveParams EXCEPT !.amplitude = 1], wf.m_time) # 0
    /\ ZeroBuffers(wf)

\* C3: two instances built from the same arguments and given the same calls
\* have the same current buffer, previous buffer and elapsed time after every
\* call, whatever order each instance runs the rows of its parallel loop in.
C3_Deterministic ==
    /\ wf.m_grid = wf2.m_grid
    /\ wf.m_previousGrid = wf2.m_previousGrid
    /\ wf.m_time = wf2.m_time

\* both instances have been updated at least twice and carry a wave in cells
\* of two adjacent rows
C3_Witness ==
    /\ wf2 # NoInstance
    /\ wf.m_time >= 2
    /\ wf2.m_time >= 2
    /\ \E i \in 1 .. (wf.m_config.gridSize - 1), j \in GridIndices :
          /\ wf2.m_grid[IndexOf(i, j)] # 0
          /\ wf2.m_grid[IndexOf(i - 1, j)] # 0
          /\ wf2.m_previousGrid[IndexOf(i, j)] # 0

\* C4: every cell within 5 cells of the border is RIGID, whatever its
\* coordinates; in particular every cell of row 0.
C4_EdgeMarginRigid ==
    /\ \A i \in GridIndices, j \in GridIndices :
          InMargin5(i, j) => wf.m_boundaryTypes[IndexOf(i, j)] = RIGID
    /\ \A j \in GridIndices : wf.m_boundaryTypes[IndexOf(0, j)] = RIGID

\* a cell of row 0 that the geometry alone puts in a reflector shell
C4_Witness ==
    \E j \in GridIndices :
        /\ GeometryType(CellX(0, j), CellY(0, j)) = PARABOLIC
        /\ wf.m_boundaryTypes[IndexOf(0, j)] = RIGID

\* y <= y_major(x) and y >= y_minor(x), within both diameters (508 mm, 200 mm)
InCavity(x, y) ==
    /\ 400 * y <= 40000 - x * x
    /\ 200 * y >= x * x - 10000
    /\ Abs(x) <= 254
    /\ Abs(x) <= 100

\* C5: every cell outside the edge margin that lies in the cavity is
\* OPEN_MEDIUM (AIR); in particular a cell at (0, 90).
C5_CavityOpen ==
    \A i \in GridIndices, j \in GridIndices :
        /\ (~InMargin5(i, j) /\ InCavity(CellX(i, j), CellY(i, j)))
              => wf.m_boundaryTypes[IndexOf(i, j)] = AIR
        /\ (~InMargin5(i, j) /\ CellX(i, j) = 0 /\ CellY(i, j) = 90)
              => wf.m_boundaryTypes[IndexOf(i, j)] = AIR

\* the grid has a cell at (0, 90) outside the edge margin
C5_Witness ==
    \E i \in GridIndices, j \in GridIndices :
        /\ ~InMargin5(i, j)
        /\ CellX(i, j) = 0
        /\ CellY(i, j) = 90
        /\ wf.m_boundaryTypes[IndexOf(i, j)] = AIR

\* within 40 mm of a reflector surface, on either side of it, within its diameter
NearSurface(x, y) ==
    \/ /\ Abs(x) <= 254
       /\ 400 * y <= 56000 - x * x
       /\ 400 * y >= 24000 - x * x
    \/ /\ Abs(x) <= 100
       /\ 200 * y >= x * x - 18000
       /\ 200 * y <= x * x - 2000

\* C6 as stated: every cell that is neither in the cavity nor in a reflector
\* shell is RIGID, including every cell outside both reflectors.
C6_Original ==
    \A i \in GridIndices, j \in GridIndices :
        (~InCavity(CellX(i, j), CellY(i, j)) /\ ~NearSurface(CellX(i, j), CellY(i, j)))
            => wf.m_boundaryTypes[IndexOf(i, j)] = RIGID

\* C6 as amended: a cell is RIGID exactly when it lies in the 5-cell edge
\* margin; every cell outside the margin that is neither in the cavity nor
\* within the shell thickness of a reflector surface is OPEN_MEDIUM (AIR),
\* including every cell outside both reflectors.
C6_OnlyMarginRigid ==
    \A i \in GridIndices, j \in GridIndices :
        /\ wf.m_boundaryTypes[IndexOf(i, j)] = RIGID <=> InMargin5(i, j)
        /\ (~InMargin5(i, j) /\ ~NearSurface(CellX(i, j), CellY(i, j)))
              => wf.m_boundaryTypes[IndexOf(i, j)] = AIR

\* a cell outside the margin and beyond the diameter of both reflectors
C6_Witness ==
    \E i \in GridIndices, j \in GridIndices :
        /\ ~InMargin5(i, j)
        /\ Abs(CellX(i, j)) > 254
        /\ wf.m_boundaryTypes[IndexOf(i, j)] = AIR

\* within 40 mm of a surface on the cavity side of it
CavitySideShell(x, y) ==
    \/ /\ Abs(x) <= 254
       /\ 400 * y <= 40000 - x * x
       /\ 400 * y >= 24000 - x * x
    \/ /\ Abs(x) <= 100
       /\ 200 * y >= x * x - 10000
       /\ 200 * y <= x * x - 2000

\* within 40 mm of a surface on the side away from the cavity
OuterSideShellMajor(x, y) ==
    /\ Abs(x) <= 254
    /\ 400 * y > 40000 - x * x
    /\ 400 * y <= 56000 - x * x

OuterSideShellMinor(x, y) ==
    /\ Abs(x) <= 100
    /\ 200 * y < x * x - 10000
    /\ 200 * y >= x * x - 18000

TypeFromParabolas(major, minor, x, y) ==
    LET inMajorDiameter == 2 * Abs(x - major.m_vertex.x) <= major.m_diameter
        inMinorDiameter == 2 * Abs(x - minor.m_vertex.x) <= minor.m_diameter
    IN  IF /\ inMajorDiameter
           /\ getYAtLeast(major, x, y, 40)
           /\ ~getYAtLeast(major, x, y, 0)
        THEN PARABOLIC
        ELSE IF /\ inMinorDiameter
                /\ getYAtMost(minor, x, y, -40)
                /\ ~getYAtMost(minor, x, y, 0)
        THEN PARABOLIC
        ELSE AIR

\* C8: the classification is that of the two Parabola objects passed to the
\* constructor; the minor diameter the classifier uses is the diameter of the
\* minor Parabola of the simulation.
C8_FromSuppliedParabolas ==
    /\ \A i \in GridIndices, j \in GridIndices :
          ~InMargin5(i, j) =>
              wf.m_boundaryTypes[IndexOf(i, j)]
                  = TypeFromParabolas(wf.m_majorParabola, wf.m_minorParabola,
                                      CellX(i, j), CellY(i, j))
    /\ minorDiameter = wf.m_minorParabola.m_diameter

\* the larger of the ambient speed and the shell speed
FastestSpeed == IF wf.m_waveParams.speed > 1500 THEN wf.m_waveParams.speed ELSE 1500

\* dt > 0.4 * h / (c * sqrt(2)) for dt in 1e-7 s, c in 1e3 mm/s, h in mm
AboveCflLimit(dt, h, c) == (dt * c) * (dt * c) > 8000000 * h * h

\* C9: construction warns exactly when the configured time step is above
\* 0.4*min(dx,dy)/(c_fast*sqrt(2)); it completes either way and leaves the
\* configured time step as it was passed.
C9_CflWarning ==
    /\ wf.warnings \in {0, 1}
    /\ wf.warnings = 1 <=>
          AboveCflLimit(args.config.timeStep,
                        Min(GridDx(args.config), GridDy(args.config)), FastestSpeed)
    /\ wf.m_config = args.config
    /\ wf.m_config.timeStep = args.config.timeStep
    /\ DOMAIN wf.m_grid = Cells(args.config)

\* a construction that warned although the time step is within the limit of
\* the ambient speed
C9_Witness ==
    /\ wf.warnings = 1
    /\ wf.m_waveParams.speed < 1500
    /\ ~AboveCflLimit(wf.m_config.timeStep,
                      Min(GridDx(wf.m_config), GridDy(wf.m_config)), wf.m_waveParams.speed)
    /\ wf.m_config.timeStep = args.config.timeStep

UnitGridAmbient343 ==
    /\ GridDx(wf.m_config) = 1
    /\ GridDy(wf.m_config) = 1
    /\ wf.m_waveParams.speed = 343

\* C10 as stated: with dx = dy = 1 mm and ambient speed 343,000 mm/s the
\* warning is emitted exactly for time steps above 0.4/(343000*sqrt(2)).
C10_Original ==
    UnitGridAmbient343 =>
        (wf.warnings = 1 <=> AboveCflLimit(wf.m_config.timeStep, 1, 343))

\* C10 as amended: with dx = dy = 1 mm and ambient speed 343,000 mm/s the
\* warning is emitted exactly for time steps above 0.4/(1500000*sqrt(2))
\* (about 1.9e-7 s), the limit of the shell speed.
C10_ShellSpeedThreshold ==
    UnitGridAmbient343 =>
        (wf.warnings = 1 <=> AboveCflLimit(wf.m_config.timeStep, 1, 1500))

\* a warning for a time step between the two thresholds
C10_Witness ==
    /\ UnitGridAmbient343
    /\ wf.warnings = 1
    /\ AboveCflLimit(wf.m_config.timeStep, 1, 1500)
    /\ ~AboveCflLimit(wf.m_config.timeStep, 1, 343)

\* the dt of the step, for a step that advanced the clock
StepDt == wf'.m_time - wf.m_time

CflSpacing(w) == Min(GridDx(w.m_config), GridDy(w.m_config))

\* C11 as stated: an update(dt) whose dt is above the CFL bound of the grid
\* and the fastest medium emits a stability warning at that call.
C11_Original ==
    [][(/\ wf'.m_time > wf.m_time
        /\ AboveCflLimit(StepDt, CflSpacing(wf), FastestSpeed))
        => wf'.warnings > wf.warnings]_vars

\* C11 as amended: the CFL bound is checked once, at construction, for the
\* configured time step; update(dt), reset, setFrequency and setAmplitude emit
\* no stability warning, whatever dt is passed, also when dt is above the bound.
C11_WarnOnlyAtConstruction ==
    [][/\ wf'.warnings = wf.warnings
       /\ wf'.m_config.timeStep = wf.m_config.timeStep]_vars

\* updates have run with a dt above the bound (at ambient speed 3,000,000 mm/s
\* every dt >= 1e-7 s is above it) and the only warning is that of construction
C11_Witness ==
    /\ wf.m_waveParams.speed = 3000
    /\ wf.m_time >= 2
    /\ AboveCflLimit(1, CflSpacing(wf), FastestSpeed)
    /\ wf.warnings = 1

SourceZero(w) == \A index \in DOMAIN w.m_sourceGrid : w.m_sourceGrid[index] = 0

\* C13: elapsed time is 0 after construction; a call that changes the wave
\* parameters (setFrequency, setAmplitude) leaves it unchanged; any other call
\* either sets it to 0 together with the buffers (reset) or adds the dt of one
\* update to it, so it never decreases between resets and is the sum of the
\* dt of the updates since the last reset or construction.
C13_Clock ==
    /\ wf.m_time = 0
    /\ [][/\ wf'.m_waveParams # wf.m_waveParams => wf'.m_time = wf.m_time
          /\ wf'.m_waveParams = wf.m_waveParams =>
                \/ wf'.m_time = 0 /\ ZeroBuffers(wf') /\ SourceZero(wf')
                \/ StepDt \in DtChoices]_vars

\* two updates or more have run, a setter too, and the clock holds their sum
C13_Witness ==
    /\ wf.m_time = 3
    /\ wf.m_waveParams.frequency # args.waveParams.frequency
    /\ ~ZeroBuffers(wf)

\* C14: a reset (the only call that takes the clock back to 0) leaves elapsed
\* time 0 and the current, previous and source buffers 0 in every cell, which
\* is the field state right after construction, and leaves the material
\* classification, the mask, the focus indices, the frequency and the
\* amplitude as they were.
C14_Reset ==
    [][(wf.m_time > 0 /\ wf'.m_time = 0) =>
          /\ ZeroBuffers(wf')
          /\ SourceZero(wf')
          /\ wf'.m_grid = Construct(args).m_grid
          /\ wf'.m_previousGrid = Construct(args).m_previousGrid
          /\ wf'.m_sourceGrid = Construct(args).m_sourceGrid
          /\ wf'.m_boundaryTypes = wf.m_boundaryTypes
          /\ wf'.m_boundaryMask = wf.m_boundaryMask
          /\ wf'.m_focusI = wf.m_focusI
          /\ wf'.m_focusJ = wf.m_focusJ
          /\ wf'.m_waveParams = wf.m_waveParams]_vars

\* a state a reset is applied to: the clock, the three buffers and the
\* frequency all differ from their values at construction
C14_Witness ==
    /\ wf.m_time > 0
    /\ ~ZeroBuffers(wf)
    /\ ~SourceZero(wf)
    /\ wf.m_waveParams.frequency # args.waveParams.frequency

\* C15: a call that changes the wave parameters (setFrequency, setAmplitude)
\* changes nothing else: buffers, clock, classification and focus indices are
\* as before; the update that follows computes the source from the parameters
\* in force when it is called.
C15_SettersFrame ==
    [][/\ wf'.m_waveParams # wf.m_waveParams =>
             [wf' EXCEPT !.m_waveParams = wf.m_waveParams] = wf
       /\ (wf'.m_time > wf.m_time /\ wf.m_boundaryMask[FocusIndex(wf)] # 0) =>
             wf'.m_sourceGrid[FocusIndex(wf)] = SourceAmplitude(wf.m_waveParams, wf'.m_time)]_vars

\* a setter ran on a field in motion and the update after it used the new
\* frequency: the source sample is that of the new frequency, not of the old
C15_Witness ==
    /\ wf.m_time > 0
    /\ ~ZeroBuffers(wf)
    /\ wf.m_waveParams.frequency # args.waveParams.frequency
    /\ wf.m_boundaryMask[FocusIndex(wf)] # 0
    /\ wf.m_sourceGrid[FocusIndex(wf)] = SourceAmplitude(wf.m_waveParams, wf.m_time)
    /\ wf.m_sourceGrid[FocusIndex(wf)] # SourceAmplitude(args.waveParams, wf.m_time)

\* C12: the time step the default simulation computes for itself is within
\* the limit validateCFLCondition checks for the same grid and media, so the
\* construction of the default simulation emits no CFL warning.
C12_DefaultStepStable ==
    args = DefaultCtor =>
        /\ wf.m_waveField.warnings = 0
        /\ wf.m_config.timeStep
              <= maxStableTimeStep(250, 299, Max(wf.m_waveParams.speed, 1500))

\* the focus cell and its in-grid axis-adjacent cells, as <<i, j>>
TargetCells(w) ==
    {c \in FocusNeighbors(w) \cup {<<w.m_focusI, w.m_focusJ>>} :
        InGrid(w.m_config.gridSize, c[1], c[2])}

\* the source value of the last update: the full value at the focus cell,
\* half of it at an adjacent cell
TargetValue(w, c) ==
    IF c = <<w.m_focusI, w.m_focusJ>> THEN SourceAmplitude(w.m_waveParams, w.m_time)
    ELSE TruncDiv(SourceAmplitude(w.m_waveParams, w.m_time), 2)

\* C16: after an update each of the five target cells holds the source value
\* (half of it for an adjacent cell) exactly when that cell itself is not
\* RIGID, whatever the material of the other target cells, the focus cell
\* included.
C16_TargetsDecidedSeparately ==
    wf.m_time > 0 =>
        \A c \in TargetCells(wf) :
            wf.m_sourceGrid[c[1] * wf.m_config.gridSize + c[2]]
                = IF wf.m_boundaryTypes[c[1] * wf.m_config.gridSize + c[2]] # RIGID
                  THEN TargetValue(wf, c) ELSE 0

\* C17: an update rebuilds the source buffer from scratch: every cell other
\* than the five target cells holds 0 after it, and a target cell holds the
\* sample of the new elapsed time under the frequency and amplitude in force
\* (half of it beside the focus) or 0, as the classification of the focus cell
\* and of the cell decides, whatever the buffer held before.
C17_SourceRebuilt ==
    [][wf'.m_time > wf.m_time =>
          \A i \in GridIndices, j \in GridIndices :
              wf'.m_sourceGrid[IndexOf(i, j)]
                  = IF /\ <<i, j>> \in TargetCells(wf)
                       /\ wf.m_boundaryMask[FocusIndex(wf)] # 0
                       /\ wf.m_boundaryMask[IndexOf(i, j)] # 0
                    THEN TargetValue([wf EXCEPT !.m_time = wf'.m_time], <<i, j>>)
                    ELSE 0]_vars

\* an update wrote a sample that is not 0 over a source buffer that was not 0:
\* the field of the step before already moved at the focus
C17_Witness ==
    /\ wf.m_time >= 3
    /\ wf.m_boundaryMask[FocusIndex(wf)] # 0
    /\ wf.m_previousGrid[FocusIndex(wf)] # 0
    /\ wf.m_sourceGrid[FocusIndex(wf)] # 0
    /\ wf.m_sourceGrid[FocusIndex(wf)] = SourceAmplitude(wf.m_waveParams, wf.m_time)

\* the speed of a cell's own material: ambient for OPEN_MEDIUM, 1,500,000 mm/s
\* for SHELL_MEDIUM
MaterialSpeed(w, index) ==
    IF w.m_boundaryTypes[index] = PARABOLIC THEN 1500 ELSE w.m_waveParams.speed

\* (-(previous - 2*current) + q0*damping*previous + q1*source + q2*dxx + q3*dyy)
\* / (1 + damping*q0) at cell (i, j), with q0..q3 from dt and the cell's speed,
\* the source buffer src and the second central differences of the current
\* buffer of w
UpdateFormula(w, src, i, j, dt) ==
    LET n == w.m_config.gridSize
        index == i * n + j
        c == MaterialSpeed(w, index)
        q0 == c * dt
        q1 == (q0 * q0) \div QScale
        q2 == ((q0 \div GridDx(w.m_config)) * (q0 \div GridDx(w.m_config))) \div QScale
        q3 == ((q0 \div GridDy(w.m_config)) * (q0 \div GridDy(w.m_config))) \div QScale
        damp == (w.m_config.dampingFactor * q0) \div DampScale
        dxx == w.m_grid[index - 1] - 2 * w.m_grid[index] + w.m_grid[index + 1]
        dyy == w.m_grid[index - n] - 2 * w.m_grid[index] + w.m_grid[index + n]
    IN  TruncDiv(-QScale * (w.m_previousGrid[index] - 2 * w.m_grid[index])
                    + damp * w.m_previousGrid[index]
                    + q1 * src[index] + q2 * dxx + q3 * dyy,
                 QScale + damp)

\* C18: for every non-RIGID cell an update writes the value of the update
\* formula, computed from the dt of the call, the speed of the cell's own
\* material, the source buffer of this update and the second central
\* differences of the current buffer as it was before the call.
C18_UpdateFormula ==
    [][wf'.m_time > wf.m_time =>
          \A i \in GridIndices, j \in GridIndices :
              wf.m_boundaryTypes[IndexOf(i, j)] # RIGID =>
                  wf'.m_grid[IndexOf(i, j)] = UpdateFormula(wf, wf'.m_sourceGrid, i, j, StepDt)]_vars

\* a shell cell and an open cell both carry a wave in the current and in the
\* previous buffer of a damped field
C18_Witness ==
    /\ wf.m_config.dampingFactor > 0
    /\ wf.m_time >= 3
    /\ \E a \in DOMAIN wf.m_grid, b \in DOMAIN wf.m_grid :
          /\ wf.m_boundaryTypes[a] = PARABOLIC
          /\ wf.m_boundaryTypes[b] = AIR
          /\ wf.m_grid[a] # 0 /\ wf.m_previousGrid[a] # 0
          /\ wf.m_grid[b] # 0 /\ wf.m_previousGrid[b] # 0

MaxAbs(grid) ==
    CHOOSE m \in {Abs(grid[k]) : k \in DOMAIN grid} : \A k \in DOMAIN grid : Abs(grid[k]) <= m

\* an update of a damped field whose clock was already beyond 8/frequency,
\* with the frequency unchanged
UpdateAfterPulse ==
    /\ wf.m_config.dampingFactor > 0
    /\ wf.m_time > 8 * TimeScale(wf.m_waveParams.frequency)
    /\ wf'.m_time > wf.m_time
    /\ wf'.m_waveParams.frequency = wf.m_waveParams.frequency

\* C19 as stated: with damping > 0 and elapsed time beyond 8/frequency, the
\* maximum absolute value over the current buffer never increases from one
\* update to the next.
C19_Original ==
    [][UpdateAfterPulse => MaxAbs(wf'.m_grid) <= MaxAbs(wf.m_grid)]_vars

\* C19 as amended: with damping > 0 and elapsed time beyond 8/frequency the
\* source buffer is 0 in every cell of each update, and the maximum absolute
\* value over the current buffer can rise from one update to the next (the
\* field keeps the motion it had when the pulse ended), for a dt within the
\* CFL bound by no more than to twice the old maximum plus the maximum over
\* the previous buffer.
C19_BoundedGrowth ==
    [][UpdateAfterPulse =>
          /\ SourceZero(wf')
          /\ ~AboveCflLimit(StepDt, CflSpacing(wf), FastestSpeed) =>
                MaxAbs(wf'.m_grid) <= 2 * MaxAbs(wf.m_grid) + MaxAbs(wf.m_previousGrid)]_vars

\* two updates past the end of the pulse, the last of which raised the maximum
C19_Witness ==
    /\ wf.m_config.dampingFactor > 0
    /\ wf.m_time >= 8 * TimeScale(wf.m_waveParams.frequency) + 2
    /\ SourceZero(wf)
    /\ MaxAbs(wf.m_grid) > MaxAbs(wf.m_previousGrid)

\* a cell of the outermost rows and columns
OnBorder(i, j) ==
    i = 0 \/ i = wf.m_config.gridSize - 1 \/ j = 0 \/ j = wf.m_config.gridSize - 1

\* C21: in an update, a cell of row 0 in a column 0 < j < N-1 is computed by
\* the rule with the one-sided y-difference 2*(current[1,j] - current[0,j])
\* and the standard x-difference; every other border cell, the two top corners
\* included, is forced to 0.
C21_TopRowOneSided ==
    [][wf'.m_time > wf.m_time =>
          \A i \in GridIndices, j \in GridIndices :
              OnBorder(i, j) =>
                  IF i = 0 /\ j > 0 /\ j < wf.m_config.gridSize - 1
                  THEN /\ CellRule(wf, i, j) = RuleTopRow
                       /\ wf'.m_grid[IndexOf(i, j)]
                             = NewCellValue([wf EXCEPT !.m_time = wf'.m_time,
                                                       !.m_sourceGrid = wf'.m_sourceGrid],
                                            i, j, StepDt)
                  ELSE wf'.m_grid[IndexOf(i, j)] = 0]_vars

\* C22: after update(dt) the previous buffer is, cell for cell, the current
\* buffer as it was before the call, and the current buffer holds the values
\* computed from the buffers as they were before the call, with RIGID cells 0
\* in both.
C22_Swap ==
    [][wf'.m_time > wf.m_time =>
          /\ wf'.m_previousGrid = wf.m_grid
          /\ \A i \in GridIndices, j \in GridIndices :
                IF wf.m_boundaryTypes[IndexOf(i, j)] = RIGID
                THEN wf'.m_grid[IndexOf(i, j)] = 0 /\ wf'.m_previousGrid[IndexOf(i, j)] = 0
                ELSE wf'.m_grid[IndexOf(i, j)]
                        = UpdateFormula(wf, wf'.m_sourceGrid, i, j, StepDt)]_vars

\* three buffers in a row differ: the field moved in each of the last two
\* updates
C22_Witness ==
    /\ wf.m_time >= 3
    /\ wf.m_grid # wf.m_previousGrid
    /\ \E index \in DOMAIN wf.m_grid :
          /\ wf.m_previousGrid[index] # 0
          /\ wf.m_grid[index] # 0
          /\ wf.m_grid[index] # 2 * wf.m_previousGrid[index]

\* C23: in every reachable state an update gives the same object for every
\* order in which the parallel loop runs its rows: a cell is computed from the
\* buffers as they were before the call and written to its own slot only.
C23_OrderIndependent ==
    \A dt \in DtChoices :
        LET inOrder == update(wf, dt, RowsAscending(wf.m_config.gridSize))
        IN  \A rows \in Schedules(wf.m_config.gridSize) : update(wf, dt, rows) = inOrder

\* a field in motion in two adjacent rows, which the next update changes
C23_Witness ==
    /\ wf.m_time >= 2
    /\ \E i \in 1 .. (wf.m_config.gridSize - 1), j \in GridIndices :
          /\ wf.m_grid[IndexOf(i, j)] # 0
          /\ wf.m_grid[IndexOf(i - 1, j)] # 0
    /\ update(wf, 1, RowsAscending(wf.m_config.gridSize)).m_grid # wf.m_grid
    /\ update(wf, 1, RowsAscending(wf.m_config.gridSize))
          = update(wf, 1, RowsDescending(wf.m_config.gridSize))

\* C24: an update or reset of the simulation calls the registered callback
\* exactly once, after the field's update or reset is complete: what the
\* callback reads is the field as the call leaves it, with the buffers swapped
\* and the RIGID cells 0; without a registered callback nothing is called.
C24_CallbackAfterCompletion ==
    [][/\ wf2'.calls # wf2.calls =>
             /\ wf.m_updateCallback
             /\ wf2'.calls = wf2.calls + 1
             /\ wf2'.seen = wf'.m_waveField
             /\ \A index \in DOMAIN wf2'.seen.m_grid :
                   wf2'.seen.m_boundaryTypes[index] = RIGID =>
                       wf2'.seen.m_grid[index] = 0 /\ wf2'.seen.m_previousGrid[index] = 0
             /\ wf2'.seen.m_time > wf.m_waveField.m_time =>
                   wf2'.seen.m_previousGrid = wf.m_waveField.m_grid
       /\ (wf'.m_waveField.m_time # wf.m_waveField.m_time) =>
             wf2'.calls = wf2.calls + (IF wf.m_updateCallback THEN 1 ELSE 0)]_vars

\* the callback was called for two calls or more, the last one an update of a
\* field in motion
C24_Witness ==
    /\ wf2.calls >= 2
    /\ wf2.seen = wf.m_waveField
    /\ wf2.seen.m_time >= 2
    /\ wf2.seen.m_grid # wf2.seen.m_previousGrid
    /\ \E index \in DOMAIN wf2.seen.m_grid : wf2.seen.m_previousGrid[index] # 0

\* the last instant of the pulse window, 7/frequency, in time units
PulseEnd(frequency) == 700 \div frequency

\* the last update left the source buffer all 0 (with an amplitude that is
\* never 0 and an open focus cell: because its time was outside the window)
SourceWentQuiet == wf.m_time > 0 /\ SourceZero(wf)

\* C25 as stated: once an update has produced an all-zero source buffer
\* because the elapsed time passed the end of the pulse window, every later
\* update produces an all-zero source buffer too until reset() is called,
\* whatever setFrequency and setAmplitude calls are made in between.
C25_Original ==
    [][(SourceWentQuiet /\ wf'.m_time # 0) => SourceZero(wf')]_vars

\* C25 as amended: an update produces an all-zero source buffer whenever the
\* new elapsed time is beyond 7/frequency for the frequency in force at that
\* update; once elapsed time is beyond it, it stays beyond it until reset()
\* under setAmplitude calls and under setFrequency calls that keep or raise
\* the frequency, while a setFrequency call that lowers the frequency can put
\* the elapsed time back inside the window.
C25_QuietWhileFrequencyNotLowered ==
    [][/\ (wf'.m_time > wf.m_time /\ wf'.m_time > PulseEnd(wf.m_waveParams.frequency))
             => SourceZero(wf')
       /\ (/\ wf.m_time > PulseEnd(wf.m_waveParams.frequency)
           /\ wf'.m_waveParams.frequency >= wf.m_waveParams.frequency
           /\ wf'.m_time # 0)
             => wf'.m_time > PulseEnd(wf'.m_waveParams.frequency)]_vars

\* two updates or more beyond the window of the frequency in force, on a field
\* that the pulse set in motion, after a setAmplitude call
C25_Witness ==
    /\ wf.m_time >= PulseEnd(wf.m_waveParams.frequency) + 3
    /\ wf.m_waveParams.amplitude # args.waveParams.amplitude
    /\ SourceZero(wf)
    /\ ~ZeroBuffers(wf)

\* C26: on every grid of 2 x 2 cells or more and for any focus point, every
\* buffer entry that update indexes is a cell of the grid with its flat index
\* in [0, N*N): the difference stencils are taken only at cells whose four
\* neighbours are in the grid and the source is written only to cells of the
\* grid; the buffers that construction and reset fill have N*N entries.
C26_IndicesInRange ==
    LET gridSize == wf.m_config.gridSize
    IN  /\ gridSize >= 2
        /\ \A c \in UpdateAccesses(wf) :
               /\ InGrid(gridSize, c[1], c[2])
               /\ c[1] * gridSize + c[2] \in 0 .. (gridSize * gridSize - 1)
        /\ \A i \in GridIndices, j \in GridIndices :
               CellRule(wf, i, j) \in {RuleInterface, RuleInterior}
                   => \A c \in StencilX(i, j) \cup StencilY(i, j) :
                          InGrid(gridSize, c[1], c[2])
        /\ DOMAIN wf.m_grid = 0 .. (gridSize * gridSize - 1)
        /\ DOMAIN wf.m_previousGrid = DOMAIN wf.m_grid
        /\ DOMAIN wf.m_sourceGrid = DOMAIN wf.m_grid
        /\ DOMAIN wf.m_boundaryMask = DOMAIN wf.m_grid
        /\ DOMAIN wf.m_boundaryTypes = DOMAIN wf.m_grid

\* a 15 x 15 grid, with interior cells next to the margin and away from it,
\* after an update that wrote the source at the focus cell and at those of its
\* neighbours that are not in the margin
C26_Witness ==
    /\ wf.m_config.gridSize = 15
    /\ ~SourceZero(wf)
    /\ \E i \in GridIndices, j \in GridIndices : CellRule(wf, i, j) = RuleInterior
    /\ \E i \in GridIndices, j \in GridIndices : CellRule(wf, i, j) = RuleInterface
    /\ \E n \in FocusNeighbors(wf) : ~InMargin5(n[1], n[2])
    /\ \E n \in FocusNeighbors(wf) : InMargin5(n[1], n[2])

\* C27: the time step passed to the five-argument constructor is overridden
\* by a CFL-compliant one: getTimeStep(), which is the step of the
\* parameterless update(), is never above the CFL limit of the custom grid and
\* the construction emits no CFL warning.
C27_CustomStepCflCompliant ==
    args.ctor = "custom" =>
        /\ getTimeStep(wf)
              <= maxStableTimeStep(minGridSpacingExtent(wf.m_config), wf.m_config.gridSize - 1,
                                   CflMaxSpeed(wf.m_waveParams.speed))
        /\ wf.m_waveField.warnings = 0

\* C29: the exporter runs the simulation on a square domain whose side in
\* millimetres is its domainSize argument, which is the value it prints and
\* the value it writes as domain_size_mm.
C29_DomainSideIsArgument ==
    /\ wf.printed.domainSize = args.domainSize * Thousandths
    /\ wf.metadata.domain_size_mm = args.domainSize * Thousandths
    /\ wf.simulation.m_config.xMax - wf.simulation.m_config.xMin = args.domainSize * Thousandths
    /\ wf.simulation.m_config.yMax - wf.simulation.m_config.yMin = args.domainSize * Thousandths

\* a vector of numbers whose length is 1 to within the rounding of the
\* thousandths
UnitLength(n) ==
    /\ ~n.nan
    /\ Abs(n.x * n.x + n.y * n.y - NormalScale * NormalScale) <= 10 * NormalScale

\* perpendicular to the tangent (1, slope) at x of parabola p, to within the
\* rounding of the thousandths
PerpendicularToTangent(n, p, x) ==
    /\ ~n.nan
    /\ Abs(n.x * p.m_coefficient + n.y * 2 * (x - p.m_vertex.x))
           <= 2 * (Abs(p.m_coefficient) + 2 * Abs(x - p.m_vertex.x))

\* C28: the normal of a parabola at x is a unit vector perpendicular to the
\* tangent of slope 2a(x - x0), and it is a well-defined vector of unit
\* length for every x, the vertex x = x0 included.
C28_NormalUnitEverywhere ==
    /\ UnitLength(wf.normal)
    /\ PerpendicularToTangent(wf.normal, wf.parabola, wf.x)

\* C30: after construction and after every update, reset, setFrequency and
\* setAmplitude, the propagation mask of a cell is 0 exactly when its material
\* is RIGID and 1 when it is AIR or PARABOLIC, so the source generator, which
\* tests the mask, holds 0 wherever the integrator, which tests the material,
\* enforces 0.
C30_MaskIffRigid ==
    \A index \in DOMAIN wf.m_boundaryTypes :
        /\ wf.m_boundaryMask[index] \in {0, 1}
        /\ wf.m_boundaryMask[index] = 0 <=> wf.m_boundaryTypes[index] = RIGID
        /\ wf.m_boundaryTypes[index] \in {AIR, PARABOLIC} => wf.m_boundaryMask[index] = 1
        /\ wf.m_boundaryTypes[index] = RIGID => wf.m_sourceGrid[index] = 0
        /\ wf.m_sourceGrid[index] # 0 => wf.m_boundaryMask[index] = 1

\* the mask has kept the source generator off a RIGID focus cell at a time
\* inside the pulse, after a setFrequency call, on a grid with cells of the
\* three materials
C30_Witness ==
    /\ wf.m_boundaryTypes[FocusIndex(wf)] = RIGID
    /\ wf.m_boundaryMask[FocusIndex(wf)] = 0
    /\ wf.m_time > 0
    /\ SourceAmplitude(wf.m_waveParams, wf.m_time) # 0
    /\ wf.m_waveParams.frequency # args.waveParams.frequency
    /\ SourceZero(wf)
    /\ \A type \in {AIR, PARABOLIC, RIGID} :
           \E index \in DOMAIN wf.m_boundaryTypes : wf.m_boundaryTypes[index] = type

====
